---- MODULE Spec2Model ----
(***************************************************************************)
(* Model of webviz_dev_sync/_package_manager.py: the PackageManager        *)
(* lifecycle (construction, checkout, install, build) over the timestamp   *)
(* cache, the package directory and its git working tree.                  *)
(***************************************************************************)
EXTENDS Integers, Sequences, FiniteSets, TLC

\* ------------------------------------------------------------------ bounds
\* The clock runs from 1 to MaxTime; 0 is the zero (epoch) timestamp.
MaxTime == 2
\* The tracked branch of the hosted repository has commits 1..MaxTip.
MaxTip == 2
\* Texts (package names, paths, lines npm prints) have at most MaxStr characters.
MaxStr == 2
\* npm prints at most MaxLines lines.
MaxLines == 1

\* --------------------------------------------------------------- universes
Procs == {1, 2}
Names == {"widgets"}
Keys == Names \X BOOLEAN
Paths == {"local", "storage"}
NoPath == "unset"
Urls == {"u1", "u2"}
NoUrl == "none"
DefaultRemote == "origin"
RemoteNames == {"acme", DefaultRemote}
Time == 0..MaxTime
Chars == {"a", "/"}
Str == UNION {[1..n -> Chars] : n \in 0..MaxStr}
\* str(packages).split("\\n") has at least one element.
Listings == UNION {[1..n -> Str] : n \in 1..MaxLines}
NoResult == "none"
NoCall == [op |-> "none", stale |-> FALSE, fresh |-> FALSE, same |-> FALSE,
           pop |-> "none", pok |-> FALSE, why |-> "none", wrote |-> FALSE,
           stored |-> FALSE]

VARIABLES
    now,        \* the wall clock (time.time() / datetime.now())
    cache,      \* Cache: [modified, built], each a partial map Keys -> Time
    mtime,      \* os.path.getmtime of each package directory
    buildTs,    \* what the kind-specific get_build_timestamp() returns, per directory
    dist,       \* pkg_resources has a distribution of the package name
    eggLink,    \* a <name>.egg-link file exists on sys.path
    dir,        \* the storage sub-directory: "absent", "empty", "junk" or "repo"
    remotes,    \* git remotes of the working tree: RemoteNames -> Urls or NoUrl
    refs,       \* remote-tracking ref <remote>/<branch>: commit, 0 when there is none
    head,       \* commit the working tree is at, 0 when there is none
    cloneUrl,   \* what GithubManager.get_clone_url() resolves to at present
    tip,        \* tip of the branch in the hosted repository, 0 when it has no such branch
    config,     \* ConfigFile().get_package(name) of each user: "missing", "local" or "remote"
    storageDir, \* ConfigFile().get_repo_storage_directory() is set
    pc,         \* position of each PackageManager user
    isLocal,    \* "local_path" in self._config
    path,       \* self._path
    github,     \* self._github_manager is set
    url,        \* the local clone_url of checkout()
    log,        \* the steps the call in progress (or the last call) has taken
    rem0,       \* the remotes as they were when the checkout() in progress (or the last one) began
    mt0,        \* mtime of the directory when the last install() returned normally, -1 otherwise
    call,       \* the call in progress (why = "running") or the last finished call
    done,       \* per action and key, when its strategy last succeeded, -1 when never
    inRun,      \* since construction: strategies invoked, "source" when the source changed, and
                \* "midinstall" when it changed between the gate and the return of the last install()
    fullRun,    \* directories whose last run went through install() and build(), source untouched since
    link        \* the link queries: link_package of the configuration, the text npm
                \* prints, the arguments of is_linked_to, and the last query's result

vars == <<now, cache, mtime, buildTs, dist, eggLink, dir, remotes, refs, head,
          cloneUrl, tip, config, storageDir, pc, isLocal, path, github, url, log, rem0, mt0, call,
          done, inRun, fullRun, link>>

cacheVars == <<cache>>
fsVars == <<mtime, buildTs, dist, eggLink>>
gitVars == <<dir, remotes, refs, head>>
hostVars == <<cloneUrl, tip, config, storageDir>>
objVars == <<isLocal, path, github>>

\* ------------------------------------------------------------------- Cache
\* Cache.get_package_modified_timestamp(name, is_local): zero for an unknown key.
get_package_modified_timestamp(k) ==
    IF k \in DOMAIN cache.modified THEN cache.modified[k] ELSE 0

\* The same two reads, of a given content c of the cache.
ModifiedIn(c, k) == IF k \in DOMAIN c.modified THEN c.modified[k] ELSE 0
BuiltIn(c, k) == IF k \in DOMAIN c.built THEN c.built[k] ELSE 0

\* Cache.get_package_build_timestamp(name, is_local): zero for an unknown key.
get_package_build_timestamp(k) ==
    IF k \in DOMAIN cache.built THEN cache.built[k] ELSE 0

\* Cache.store_package_modified_timestamp(name, is_local): stores the present time.
store_package_modified_timestamp(k) ==
    [cache EXCEPT !.modified =
        [x \in (DOMAIN @) \cup {k} |-> IF x = k THEN now ELSE @[x]]]

\* Cache.store_package_built_timestamp(name, is_local): stores the present time.
store_package_built_timestamp(k) ==
    [cache EXCEPT !.built =
        [x \in (DOMAIN @) \cup {k} |-> IF x = k THEN now ELSE @[x]]]

\* ----------------------------------------------------------------- helpers
\* self._name
name(p) == "widgets"

\* PackageManager.is_local_package
is_local_package(p) == isLocal[p]

\* the (name, is_local) pair every Cache call of install() and build() passes
CacheKey(p) == <<name(p), is_local_package(p)>>

\* self._config["github_branch"]["repository"].split("/")[0]
remoteName(p) == "acme"

\* PackageManager.get_last_modified_date / os.path.getmtime(self._path)
get_last_modified_date(p) == mtime[path[p]]

\* Remote.exists() of the remote checkout() looks up
RemoteExists(p) == remotes[remoteName(p)] # NoUrl

\* get_dist_egg_link: walks sys.path, evaluates the link's path where the file
\* exists without returning it, and returns None in every case.
get_dist_egg_link(linkFileExists) ==
    IF linkFileExists THEN FALSE ELSE FALSE

Append1(p, step) == [log EXCEPT ![p] = Append(@, step)]

\* The record of a call that starts. stale: the cached timestamp the call is
\* gated on is older than the timestamp it is compared with; fresh: the cache has
\* no such timestamp; same: the directory is as the install() just before left
\* it; pop, pok: the call before this one and whether it returned. When the
\* call ends, why tells how ("none": it returned), wrote whether it changed the
\* cache, and stored whether its own cached timestamp is then the present time.
Begin(p, op, stale, fresh, same) ==
    [op |-> op, stale |-> stale, fresh |-> fresh, same |-> same,
     pop |-> call[p].op, pok |-> (call[p].why = "none"),
     why |-> "running", wrote |-> FALSE, stored |-> FALSE]

\* How often the call in progress (or the last call) of p took the step.
Count(p, step) == Cardinality({i \in DOMAIN log[p] : log[p][i] = step})

\* An exception leaves the call and, uncaught, ends this run of the package.
RaiseWrote(p, why, wrote) ==
    /\ pc' = [pc EXCEPT ![p] = "failed"]
    /\ call' = [call EXCEPT ![p].why = why, ![p].wrote = wrote]
    /\ mt0' = [mt0 EXCEPT ![p] = -1]
    /\ fullRun' = fullRun \ {path[p]}

Raise(p, why) == RaiseWrote(p, why, FALSE)

\* ------------------------------------------------------------ construction
\* Mutant: __init__ goes on without the package's configuration.
ConfigMissingIgnored(kind) == FALSE

\* __init__, lines 41-42: not self._config, on which it raises
\* MissingPackageInConfigFile.
ConfigMissing(kind) == kind = "missing"

\* PackageManager.__init__ up to its call of checkout().
Construct(p) ==
    /\ pc[p] \in {"idle", "failed"}
    /\ LET kind == config[p]
           storage == storageDir
       IN
        /\ inRun' = [inRun EXCEPT ![p] = {}]
        /\ mt0' = [mt0 EXCEPT ![p] = -1]
        /\ IF ConfigMissing(kind)
           THEN /\ pc' = [pc EXCEPT ![p] = "failed"]
                /\ isLocal' = [isLocal EXCEPT ![p] = FALSE]
                /\ path' = [path EXCEPT ![p] = NoPath]
                /\ github' = [github EXCEPT ![p] = FALSE]
                /\ UNCHANGED <<dir, mtime>>
           ELSE IF kind = "local"
           THEN /\ pc' = [pc EXCEPT ![p] = "ready"]
                /\ isLocal' = [isLocal EXCEPT ![p] = TRUE]
                /\ path' = [path EXCEPT ![p] = "local"]
                /\ github' = [github EXCEPT ![p] = FALSE]
                /\ UNCHANGED <<dir, mtime>>
           ELSE IF storage
           THEN /\ pc' = [pc EXCEPT ![p] = "init_co"]
                /\ isLocal' = [isLocal EXCEPT ![p] = FALSE]
                /\ path' = [path EXCEPT ![p] = "storage"]
                /\ github' = [github EXCEPT ![p] = TRUE]
                /\ IF dir = "absent"
                   THEN /\ dir' = "empty"
                        /\ mtime' = [mtime EXCEPT !["storage"] = now]
                   ELSE UNCHANGED <<dir, mtime>>
           ELSE /\ pc' = [pc EXCEPT ![p] = "ready"]
                /\ isLocal' = [isLocal EXCEPT ![p] = FALSE]
                /\ path' = [path EXCEPT ![p] = NoPath]
                /\ github' = [github EXCEPT ![p] = FALSE]
                /\ UNCHANGED <<dir, mtime>>
    /\ UNCHANGED <<link, config, storageDir, now, cache, buildTs, dist, eggLink, remotes, refs, head,
                   cloneUrl, tip, url, log, rem0, call, done, fullRun>>

\* ---------------------------------------------------------------- checkout
\* Mutant: checkout() adds the remote to every valid working tree, without
\* asking whether it exists.
AfterOpenAlwaysAdds(p) ==
    IF dir # "repo" THEN "co_clone" ELSE "co_add"

\* Mutant: checkout() never adds the remote to a valid working tree.
AfterOpenNeverAdds(p) ==
    IF dir # "repo" THEN "co_clone" ELSE "co_fetch"

\* Where checkout() goes after Repo(self._path) and remote.exists(): an
\* InvalidGitRepositoryError leads to the clone, a missing remote to the add.
AfterOpen(p) ==
    IF dir # "repo" THEN "co_clone"
    ELSE IF ~RemoteExists(p) THEN "co_add"
    ELSE "co_fetch"

\* checkout(): the guard on the github manager, open_repo/get_clone_url, and
\* the inspection of the working tree.
checkout(p) ==
    /\ pc[p] \in {"init_co", "ready"}
    /\ log' = [log EXCEPT ![p] = <<>>]
    /\ rem0' = [rem0 EXCEPT ![p] = remotes]
    /\ IF ~(github[p] /\ path[p] # NoPath)
       THEN /\ pc' = [pc EXCEPT ![p] = "ready"]
            /\ call' = [call EXCEPT ![p] =
                          [Begin(p, "checkout", FALSE, FALSE, FALSE) EXCEPT !.why = "none"]]
            /\ UNCHANGED <<url, mt0, fullRun>>
       ELSE \E resolved \in BOOLEAN :
            IF resolved
            THEN /\ url' = [url EXCEPT ![p] = cloneUrl]
                 /\ pc' = [pc EXCEPT ![p] = AfterOpen(p)]
                 /\ call' = [call EXCEPT ![p] = Begin(p, "checkout", TRUE, FALSE, FALSE)]
                 /\ UNCHANGED <<mt0, fullRun>>
            ELSE /\ pc' = [pc EXCEPT ![p] = "failed"]
                 /\ call' = [call EXCEPT ![p] =
                          [Begin(p, "checkout", TRUE, FALSE, FALSE) EXCEPT !.why = "resolve"]]
                 /\ mt0' = [mt0 EXCEPT ![p] = -1]
                 /\ fullRun' = fullRun \ {path[p]}
                 /\ UNCHANGED url
    /\ UNCHANGED <<link, config, storageDir, now, cache, mtime, buildTs, dist, eggLink, dir, remotes, refs,
                   head, cloneUrl, tip, isLocal, path, github, done, inRun>>

\* Mutant: the add replaces the remotes of the working tree by the new one.
AddedAlone(p) ==
    [r \in RemoteNames |-> IF r = remoteName(p) THEN url[p] ELSE NoUrl]

\* The remotes once git has added the remote under the derived name.
Added(p) == [remotes EXCEPT ![remoteName(p)] = url[p]]

\* remote.add(repo, name, url) in a working tree that lacks the remote.
co_add(p) ==
    /\ pc[p] = "co_add"
    /\ log' = Append1(p, "add")
    /\ \/ /\ ~RemoteExists(p)
          /\ remotes' = Added(p)
          /\ pc' = [pc EXCEPT ![p] = "co_fetch"]
          /\ UNCHANGED <<call, mt0, fullRun>>
       \/ /\ Raise(p, "add")
          /\ UNCHANGED remotes
    /\ UNCHANGED <<link, config, storageDir, now, cache, mtime, buildTs, dist, eggLink, dir, refs, head,
                   cloneUrl, tip, isLocal, path, github, url, rem0, done, inRun>>

\* Mutant: the fresh clone goes to the fetch under its default remote's name.
AfterCloneFetches == "co_fetch"

\* checkout(), lines 88-90: after Repo.clone_from the default remote is renamed.
AfterClone == "co_rename"

\* The remotes of a fresh clone: the default remote, at the URL cloned from.
Cloned(p) == [r \in RemoteNames |-> IF r = DefaultRemote THEN url[p] ELSE NoUrl]

\* Repo.clone_from(clone_url, self._path): git clones into an empty directory
\* only. A clone that fails removes what it wrote; one that is killed on the
\* way leaves the initialised repository with its default remote and no commit.
co_clone(p) ==
    /\ pc[p] = "co_clone"
    /\ log' = Append1(p, "clone")
    /\ \/ /\ dir = "empty"
          /\ dir' = "repo"
          /\ remotes' = Cloned(p)
          /\ refs' = [r \in RemoteNames |-> IF r = DefaultRemote THEN tip ELSE 0]
          /\ head' = 0
          /\ mtime' = [mtime EXCEPT ![path[p]] = now]
          /\ pc' = [pc EXCEPT ![p] = AfterClone]
          /\ UNCHANGED <<call, mt0, fullRun>>
       \/ /\ Raise(p, "clone")
          /\ UNCHANGED <<dir, remotes, refs, head, mtime>>
       \/ /\ dir = "empty"
          /\ dir' = "repo"
          /\ remotes' = Cloned(p)
          /\ mtime' = [mtime EXCEPT ![path[p]] = now]
          /\ Raise(p, "clone")
          /\ UNCHANGED <<refs, head>>
    /\ UNCHANGED <<link, config, storageDir, now, cache, buildTs, dist, eggLink, cloneUrl,
                   tip, isLocal, path, github, url, rem0, done, inRun>>

\* Mutant: the rename leaves the default remote in place beside the new name.
RenamedKeepingDefault(p) ==
    [remotes EXCEPT ![remoteName(p)] = remotes[DefaultRemote]]

\* The remotes once git has renamed the default remote to the derived name.
Renamed(p) ==
    [remotes EXCEPT ![remoteName(p)] = remotes[DefaultRemote],
                    ![DefaultRemote] = NoUrl]

\* self._repo.remote().rename(name): the clone's default remote takes the derived name.
co_rename(p) ==
    /\ pc[p] = "co_rename"
    /\ log' = Append1(p, "rename")
    /\ \/ /\ remotes[DefaultRemote] # NoUrl
          /\ ~RemoteExists(p)
          /\ remotes' = Renamed(p)
          /\ refs' = [refs EXCEPT ![remoteName(p)] = refs[DefaultRemote],
                                  ![DefaultRemote] = 0]
          /\ pc' = [pc EXCEPT ![p] = "co_fetch"]
          /\ UNCHANGED <<call, mt0, fullRun>>
       \/ /\ Raise(p, "rename")
          /\ UNCHANGED <<remotes, refs>>
    /\ UNCHANGED <<link, config, storageDir, now, cache, mtime, buildTs, dist, eggLink, dir, head, cloneUrl,
                   tip, isLocal, path, github, url, rem0, done, inRun>>

\* remote.fetch(): the remote-tracking ref follows the hosted branch.
co_fetch(p) ==
    /\ pc[p] = "co_fetch"
    /\ log' = Append1(p, "fetch")
    /\ \/ /\ RemoteExists(p)
          /\ refs' = [refs EXCEPT ![remoteName(p)] = tip]
          /\ pc' = [pc EXCEPT ![p] = "co_ref"]
          /\ UNCHANGED <<call, mt0, fullRun>>
       \/ /\ Raise(p, "fetch")
          /\ UNCHANGED refs
    /\ UNCHANGED <<link, config, storageDir, now, cache, mtime, buildTs, dist, eggLink, dir, remotes, head,
                   cloneUrl, tip, isLocal, path, github, url, rem0, done, inRun>>

\* self._repo.git.checkout(<remote>/<branch>): fails when there is no such ref;
\* moving to another commit rewrites files of the directory.
co_ref(p) ==
    /\ pc[p] = "co_ref"
    /\ log' = Append1(p, "checkout")
    /\ \/ /\ refs[remoteName(p)] # 0
          /\ head' = refs[remoteName(p)]
          /\ IF head' # head
             THEN /\ \E touched \in BOOLEAN :
                        mtime' = IF touched THEN [mtime EXCEPT ![path[p]] = now] ELSE mtime
                  /\ fullRun' = fullRun \ {path[p]}
             ELSE UNCHANGED <<mtime, fullRun>>
          /\ pc' = [pc EXCEPT ![p] = "ready"]
          /\ call' = [call EXCEPT ![p].why = "none"]
          /\ UNCHANGED mt0
       \/ /\ Raise(p, "checkout")
          /\ UNCHANGED <<head, mtime>>
    /\ UNCHANGED <<link, config, storageDir, now, cache, buildTs, dist, eggLink, dir, remotes, refs, cloneUrl,
                   tip, isLocal, path, github, url, rem0, done, inRun>>

\* ----------------------------------------------------------------- install
\* Mutant: the gate of install() also opens on equal timestamps.
InstallGateLe(p) ==
    get_package_modified_timestamp(CacheKey(p)) <= get_last_modified_date(p)

\* install(), lines 109-111: the cached modified-timestamp is older than the
\* directory.
InstallGate(p) ==
    get_package_modified_timestamp(CacheKey(p)) < get_last_modified_date(p)

\* install(), lines 109-111: reading self._path of a manager that never set it
\* raises; a closed gate returns at once.
install(p) ==
    /\ pc[p] \in {"ready", "installed"}
    /\ log' = [log EXCEPT ![p] = <<>>]
    /\ IF path[p] = NoPath
       THEN /\ pc' = [pc EXCEPT ![p] = "failed"]
            /\ call' = [call EXCEPT ![p] =
                          [Begin(p, "install", FALSE, FALSE, FALSE) EXCEPT !.why = "path"]]
            /\ mt0' = [mt0 EXCEPT ![p] = -1]
            /\ fullRun' = fullRun \ {path[p]}
       ELSE LET fresh == CacheKey(p) \notin DOMAIN cache.modified
                same == /\ call[p].op = "install"
                        /\ call[p].why = "none"
                        /\ mt0[p] = mtime[path[p]]
                stale == ModifiedIn(cache, CacheKey(p)) < mtime[path[p]]
            IN  IF InstallGate(p)
                THEN /\ pc' = [pc EXCEPT ![p] = "inst_prep"]
                     /\ call' = [call EXCEPT ![p] = Begin(p, "install", stale, fresh, same)]
                     /\ UNCHANGED <<mt0, fullRun>>
                ELSE /\ pc' = [pc EXCEPT ![p] = "installed"]
                     /\ call' = [call EXCEPT ![p] =
                          [Begin(p, "install", stale, fresh, same) EXCEPT !.why = "none"]]
                     /\ mt0' = [mt0 EXCEPT ![p] = mtime[path[p]]]
                     /\ UNCHANGED fullRun
    /\ inRun' = [inRun EXCEPT ![p] = @ \ {"midinstall"}]
    /\ UNCHANGED <<link, config, storageDir, now, cache, mtime, buildTs, dist, eggLink, dir, remotes, refs,
                   head, cloneUrl, tip, isLocal, path, github, url, rem0, done>>

\* install(), lines 113-126: on Windows the npm script-shell is set first;
\* get_distribution raises DistributionNotFound for a name that is not
\* installed; the egg link get_dist_egg_link returns is removed.
inst_prep(p) ==
    /\ pc[p] = "inst_prep"
    /\ \E win \in BOOLEAN, execOk \in BOOLEAN :
        LET steps == IF win THEN <<"npm_config", "get_distribution">>
                     ELSE <<"get_distribution">>
        IN  IF win /\ ~execOk
            THEN /\ log' = [log EXCEPT ![p] = @ \o <<"npm_config">>]
                 /\ Raise(p, "exec")
                 /\ UNCHANGED eggLink
            ELSE IF ~dist
            THEN /\ log' = [log EXCEPT ![p] = @ \o steps]
                 /\ Raise(p, "dist")
                 /\ UNCHANGED eggLink
            ELSE /\ IF get_dist_egg_link(eggLink)
                    THEN /\ eggLink' = FALSE
                         /\ log' = [log EXCEPT ![p] = @ \o steps \o <<"remove_egg_link">>]
                    ELSE /\ UNCHANGED eggLink
                         /\ log' = [log EXCEPT ![p] = @ \o steps]
                 /\ pc' = [pc EXCEPT ![p] = "inst_run"]
                 /\ UNCHANGED <<call, mt0, fullRun>>
    /\ UNCHANGED <<link, config, storageDir, now, cache, mtime, buildTs, dist, dir, remotes, refs, head,
                   cloneUrl, tip, isLocal, path, github, url, rem0, done, inRun>>

\* Mutant: install() stores the timestamp whether or not the strategy raised.
InstallStoresAlways(ok) == TRUE

\* Whether install() goes on to store the timestamp after the strategy: an
\* exception of the strategy leaves install() before the store.
InstallStores(ok) == ok

\* Mutant: install() stores under the key of the other kind of the package.
InstallStoreKeyOther(p) == <<name(p), ~is_local_package(p)>>

\* The key install() stores under.
InstallStoreKey(p) == CacheKey(p)

\* install(), lines 128-131: the kind-specific installation routine, which may
\* write into the directory and install the distribution, then the store.
inst_run(p) ==
    /\ pc[p] = "inst_run"
    /\ log' = Append1(p, "install_strategy")
    /\ inRun' = [inRun EXCEPT ![p] = @ \cup {"install"}]
    /\ \E ok \in BOOLEAN, touched \in BOOLEAN, develop \in BOOLEAN :
        /\ mtime' = IF touched THEN [mtime EXCEPT ![path[p]] = now] ELSE mtime
        /\ IF ok
           THEN /\ dist' = (dist \/ develop)
                /\ eggLink' = (eggLink \/ develop)
                /\ done' = [done EXCEPT !.install[CacheKey(p)] = now]
           ELSE UNCHANGED <<dist, eggLink, done>>
        /\ cache' = IF InstallStores(ok)
                    THEN store_package_modified_timestamp(InstallStoreKey(p))
                    ELSE cache
        /\ IF ok
           THEN /\ pc' = [pc EXCEPT ![p] = "installed"]
                /\ call' = [call EXCEPT ![p].why = "none",
                                        ![p].wrote = (cache' # cache),
                                        ![p].stored =
                                            (ModifiedIn(cache', CacheKey(p)) = now)]
                /\ mt0' = [mt0 EXCEPT ![p] = mtime'[path[p]]]
                /\ UNCHANGED fullRun
           ELSE RaiseWrote(p, "strategy", cache' # cache)
    /\ UNCHANGED <<link, config, storageDir, now, buildTs, dir, remotes, refs, head, cloneUrl, tip, isLocal,
                   path, github, url, rem0>>

\* ------------------------------------------------------------------- build
\* The kind-specific get_build_timestamp() of the package.
get_build_timestamp(p) == buildTs[path[p]]

\* Mutant: build() also runs when the cached timestamp equals the build timestamp.
BuildGateLe(p) ==
    get_package_build_timestamp(CacheKey(p)) <= get_build_timestamp(p)

\* The gate of build(): the cached timestamp is older than the build timestamp.
BuildGate(p) ==
    get_package_build_timestamp(CacheKey(p)) < get_build_timestamp(p)

\* build(), lines 143-146.
build(p) ==
    /\ pc[p] \in {"installed", "built"}
    /\ log' = [log EXCEPT ![p] = <<>>]
    /\ LET fresh == CacheKey(p) \notin DOMAIN cache.built
           stale == BuiltIn(cache, CacheKey(p)) < buildTs[path[p]]
       IN  IF BuildGate(p)
           THEN /\ pc' = [pc EXCEPT ![p] = "build_run"]
                /\ call' = [call EXCEPT ![p] = Begin(p, "build", stale, fresh, FALSE)]
           ELSE /\ pc' = [pc EXCEPT ![p] = "built"]
                /\ call' = [call EXCEPT ![p] =
                          [Begin(p, "build", stale, fresh, FALSE) EXCEPT !.why = "none"]]
    /\ UNCHANGED <<link, config, storageDir, now, cache, mtime, buildTs, dist, eggLink, dir, remotes, refs,
                   head, cloneUrl, tip, isLocal, path, github, url, rem0, mt0, done,
                   inRun, fullRun>>

\* Whether build() goes on to store the timestamp after the strategy.
BuildStores(ok) == ok

\* build(), lines 148-151: the kind-specific build routine, which may write
\* into the directory and renew the build timestamp, then the store.
build_run(p) ==
    /\ pc[p] = "build_run"
    /\ log' = Append1(p, "build_strategy")
    /\ inRun' = [inRun EXCEPT ![p] = @ \cup {"build"}]
    /\ \E ok \in BOOLEAN, touched \in BOOLEAN, renewed \in BOOLEAN :
        /\ mtime' = IF touched THEN [mtime EXCEPT ![path[p]] = now] ELSE mtime
        /\ buildTs' = IF renewed THEN [buildTs EXCEPT ![path[p]] = now] ELSE buildTs
        /\ done' = IF ok THEN [done EXCEPT !.build[CacheKey(p)] = now] ELSE done
        /\ cache' = IF BuildStores(ok)
                    THEN store_package_built_timestamp(CacheKey(p))
                    ELSE cache
        /\ IF ok
           THEN /\ pc' = [pc EXCEPT ![p] = "built"]
                /\ call' = [call EXCEPT ![p].why = "none",
                                        ![p].wrote = (cache' # cache),
                                        ![p].stored =
                                            (BuiltIn(cache', CacheKey(p)) = now)]
                /\ UNCHANGED <<mt0, fullRun>>
           ELSE RaiseWrote(p, "strategy", cache' # cache)
    /\ UNCHANGED <<link, config, storageDir, now, dist, eggLink, dir, remotes, refs, head, cloneUrl, tip,
                   isLocal, path, github, url, rem0>>

\* The run ends and the PackageManager is dropped.
EndRun(p) ==
    /\ pc[p] \in {"ready", "installed", "built"}
    /\ pc' = [pc EXCEPT ![p] = "idle"]
    /\ fullRun' = IF pc[p] = "built" /\ "source" \notin inRun[p]
                  THEN fullRun \cup {path[p]}
                  ELSE fullRun \ {path[p]}
    /\ mt0' = [mt0 EXCEPT ![p] = -1]
    /\ inRun' = [inRun EXCEPT ![p] = {}]
    /\ UNCHANGED <<link, config, storageDir, now, cache, mtime, buildTs, dist, eggLink, dir,
                   remotes, refs, head, cloneUrl, tip, isLocal, path, github, url,
                   log, rem0, call, done>>

\* ------------------------------------------------------------- environment
\* Time passes.
Tick ==
    /\ now < MaxTime
    /\ now' = now + 1
    /\ UNCHANGED <<link, config, storageDir, cache, mtime, buildTs, dist, eggLink, dir, remotes, refs, head,
                   cloneUrl, tip, config, storageDir, pc, isLocal, path, github, url, log, rem0, mt0,
                   call, done, inRun, fullRun>>

\* The developer changes the source in a package directory.
Touch(d) ==
    /\ d = "storage" => dir # "absent"
    /\ mtime[d] < now
    /\ mtime' = [mtime EXCEPT ![d] = now]
    /\ \E renewed \in BOOLEAN :
        buildTs' = IF renewed THEN [buildTs EXCEPT ![d] = now] ELSE buildTs
    /\ fullRun' = fullRun \ {d}
    /\ inRun' = [p \in Procs |->
                    IF path[p] = d /\ pc[p] \in {"inst_prep", "inst_run"}
                    THEN inRun[p] \cup {"source", "midinstall"}
                    ELSE IF path[p] = d /\ pc[p] \notin {"idle", "off", "failed"}
                    THEN inRun[p] \cup {"source"}
                    ELSE inRun[p]]
    /\ UNCHANGED <<link, config, storageDir, now, cache, dist, eggLink, dir, remotes, refs,
                   head, cloneUrl, tip, pc, isLocal, path, github, url, log, rem0,
                   mt0, call, done>>

\* A commit is pushed to the tracked branch of the hosted repository.
Push ==
    /\ tip < MaxTip
    /\ tip' = tip + 1
    /\ UNCHANGED <<link, config, storageDir, now, cache, mtime, buildTs, dist, eggLink, dir, remotes, refs,
                   head, cloneUrl, pc, isLocal, path, github, url, log, rem0, mt0,
                   call, done, inRun, fullRun>>

\* The clone URL the repository resolves to changes (a rotated access token).
Rotate ==
    /\ \E u \in Urls \ {cloneUrl} : cloneUrl' = u
    /\ UNCHANGED <<link, config, storageDir, now, cache, mtime, buildTs, dist, eggLink, dir, remotes, refs,
                   head, tip, pc, isLocal, path, github, url, log, rem0, mt0, call,
                   done, inRun, fullRun>>

\* ------------------------------------------------------------ specification
\* The directory the configuration gives the package of p.
PathOf(p) ==
    IF config[p] = "local" THEN "local"
    ELSE IF config[p] = "remote" /\ storageDir THEN "storage"
    ELSE NoPath

NoRemotes == [r \in RemoteNames |-> NoUrl]
NoRefs == [r \in RemoteNames |-> 0]
NeverDone == [k \in Keys |-> -1]

InitObjects ==
    /\ pc = [p \in Procs |-> IF p = 1 THEN "idle" ELSE "off"]
    /\ isLocal = [p \in Procs |-> FALSE]
    /\ path = [p \in Procs |-> NoPath]
    /\ github = [p \in Procs |-> FALSE]
    /\ url = [p \in Procs |-> NoUrl]
    /\ log = [p \in Procs |-> <<>>]
    /\ rem0 = [p \in Procs |-> NoRemotes]
    /\ mt0 = [p \in Procs |-> -1]
    /\ call = [p \in Procs |-> NoCall]
    /\ inRun = [p \in Procs |-> {}]
    /\ fullRun = {}

\* No link query is made: one configuration and one npm output.
InitNoLink ==
    link = [package |-> "absent", output |-> <<<<>>>>, other |-> <<"a">>,
            otherPath |-> <<>>, op |-> "none", result |-> NoResult]

\* One package, local or remote, that was never synced: no cache record, directories that may be
\* as old as the epoch, a storage directory that is absent or empty.
Init ==
    /\ now = 1
    /\ cache = [modified |-> [k \in {} |-> 0], built |-> [k \in {} |-> 0]]
    /\ done = [install |-> NeverDone, build |-> NeverDone]
    /\ config \in [Procs -> {"missing", "local", "remote"}]
    /\ config[2] = "missing"
    /\ storageDir \in BOOLEAN
    /\ mtime \in [Paths -> 0..1]
    /\ buildTs \in [Paths -> 0..1]
    /\ \A d \in Paths : d # PathOf(1) => mtime[d] = 0 /\ buildTs[d] = 0
    /\ config[1] # "remote" => storageDir
    /\ dist \in BOOLEAN
    /\ eggLink \in {FALSE, dist}
    /\ dir \in {"absent", "empty"}
    /\ PathOf(1) # "storage" => dir = "absent"
    /\ PathOf(1) = NoPath => dist /\ ~eggLink
    /\ remotes = NoRemotes
    /\ refs = NoRefs
    /\ head = 0
    /\ cloneUrl = "u1"
    /\ tip = 1
    /\ InitObjects
    /\ InitNoLink

Next ==
    \/ \E p \in Procs : Construct(p)
    \/ \E p \in Procs : checkout(p)
    \/ \E p \in Procs : co_add(p)
    \/ \E p \in Procs : co_clone(p)
    \/ \E p \in Procs : co_rename(p)
    \/ \E p \in Procs : co_fetch(p)
    \/ \E p \in Procs : co_ref(p)
    \/ \E p \in Procs : install(p)
    \/ \E p \in Procs : inst_prep(p)
    \/ \E p \in Procs : inst_run(p)
    \/ \E p \in Procs : build(p)
    \/ \E p \in Procs : build_run(p)
    \/ \E p \in Procs : EndRun(p)
    \/ \E d \in Paths : Touch(d)
    \/ Tick

Spec == Init /\ [][Next]_vars

\* The repository reconciliation alone: a storage directory in any state a
\* user may have left it in (absent, empty, holding other files, or a working
\* tree with any remotes), a hosted repository whose branch moves and whose
\* clone URL changes, and checkout() called over and over.
InitCheckout ==
    /\ now = 1
    /\ \E synced \in BOOLEAN :
        LET at == [k \in (IF synced THEN {<<"widgets", FALSE>>} ELSE {}) |-> 1]
        IN  /\ cache = [modified |-> at, built |-> at]
            /\ done = [install |-> [k \in Keys |-> IF k \in DOMAIN at THEN 1 ELSE -1],
                       build |-> [k \in Keys |-> IF k \in DOMAIN at THEN 1 ELSE -1]]
    /\ config \in [Procs -> {"missing", "local", "remote"}]
    /\ config[2] = "missing"
    /\ storageDir \in BOOLEAN
    /\ mtime = [d \in Paths |-> 1]
    /\ buildTs = [d \in Paths |-> 1]
    /\ dist = TRUE
    /\ eggLink = FALSE
    /\ dir \in {"absent", "empty", "junk", "repo"}
    /\ remotes \in [RemoteNames -> Urls \cup {NoUrl}]
    /\ refs \in [RemoteNames -> 0..1]
    /\ head \in 0..1
    /\ dir # "repo" => remotes = NoRemotes /\ head = 0
    /\ \A r \in RemoteNames : remotes[r] = NoUrl => refs[r] = 0
    /\ cloneUrl = "u1"
    /\ tip \in 0..1
    /\ InitObjects
    /\ InitNoLink

NextCheckout ==
    \/ \E p \in Procs : Construct(p)
    \/ \E p \in Procs : checkout(p)
    \/ \E p \in Procs : co_add(p)
    \/ \E p \in Procs : co_clone(p)
    \/ \E p \in Procs : co_rename(p)
    \/ \E p \in Procs : co_fetch(p)
    \/ \E p \in Procs : co_ref(p)
    \/ \E p \in Procs : EndRun(p)
    \/ Push
    \/ Rotate

SpecCheckout == InitCheckout /\ [][NextCheckout]_vars

\* ------------------------------------------------------------ link queries
\* needle in haystack, of Python strings.
Contains(needle, haystack) ==
    \E i \in 0..(Len(haystack) - Len(needle)) :
        SubSeq(haystack, i + 1, i + Len(needle)) = needle

\* s[len(s) - 1]: the last character; of the empty string, an IndexError.
LastChar(s) == IF Len(s) = 0 THEN "IndexError" ELSE s[Len(s)]

\* s[0 : len(s) - 1] if s[len(s) - 1] == "/" else s, for a string with a last character.
StripSlash(s) == IF LastChar(s) = "/" THEN SubSeq(s, 1, Len(s) - 1) ELSE s

\* str(self._path)
PathStr(p) == IF path[p] = "local" THEN <<"/", "a">> ELSE <<"a", "a">>

\* is_linked_to, lines 172-180, on the lines check_output returned.
LinkedTo(output, other_package, other_package_path) ==
    IF LastChar(other_package_path) = "IndexError" THEN "IndexError"
    ELSE LET stripped == StripSlash(other_package_path)
         IN  IF \E i \in DOMAIN output :
                    /\ Contains(other_package, output[i])
                    /\ Contains(stripped, output[i]) \/ other_package_path = <<>>
             THEN "True" ELSE "False"

\* A query ends: the object stays as it is.
Answer(op, result) ==
    /\ link' = [link EXCEPT !.op = op, !.result = result]
    /\ UNCHANGED <<config, storageDir, now, cache, mtime, buildTs, dist, eggLink, dir,
                   remotes, refs, head, cloneUrl, tip, pc, isLocal, path, github, url,
                   log, rem0, mt0, call, done, inRun, fullRun>>

\* PackageManager.is_linked_to: npm list in <path>/react, which raises when
\* the manager has no path or when npm fails, then the match line by line.
is_linked_to(p) ==
    /\ pc[p] \in {"ready", "installed", "built"}
    /\ IF path[p] = NoPath
       THEN Answer("is_linked_to", "AttributeError")
       ELSE \E ran \in BOOLEAN :
            IF ran
            THEN Answer("is_linked_to", LinkedTo(link.output, link.other, link.otherPath))
            ELSE Answer("is_linked_to", "CalledProcessError")

\* PackageManager.is_linked: npm ls -g, then the path looked up in its text.
is_linked(p) ==
    /\ pc[p] \in {"ready", "installed", "built"}
    /\ IF path[p] = NoPath
       THEN Answer("is_linked", "AttributeError")
       ELSE \E ran \in BOOLEAN :
            IF ran
            THEN Answer("is_linked",
                        IF \E i \in DOMAIN link.output :
                              Contains(StripSlash(PathStr(p)), link.output[i])
                        THEN "True" ELSE "False")
            ELSE Answer("is_linked", "CalledProcessError")

\* Mutant: a package is linked only when link_package is set to true.
ShallBeLinkedWhenSet(linkPackage) == linkPackage = "true"

\* shall_be_linked, lines 185-187, of a configuration that is there:
\* not ("link_package" in config and config["link_package"] == False).
ShallBeLinked(linkPackage) ==
    ~(linkPackage # "absent" /\ linkPackage = "false")

\* PackageManager.shall_be_linked.
shall_be_linked(p) ==
    /\ pc[p] \in {"ready", "installed", "built"}
    /\ Answer("shall_be_linked",
              IF config[p] = "missing" THEN "False"
              ELSE IF ShallBeLinked(link.package) THEN "True" ELSE "False")

\* The link queries alone, of a package that needs no checkout: every
\* link_package, every npm output and every pair of arguments within the bounds.
InitQuery ==
    /\ now = 1
    /\ cache = [modified |-> [k \in {} |-> 0], built |-> [k \in {} |-> 0]]
    /\ done = [install |-> NeverDone, build |-> NeverDone]
    /\ config = [p \in Procs |-> IF p = 1 THEN "local" ELSE "missing"]
    /\ storageDir = TRUE
    /\ mtime = [d \in Paths |-> 1]
    /\ buildTs = [d \in Paths |-> 1]
    /\ dist = TRUE
    /\ eggLink = FALSE
    /\ dir = "absent"
    /\ remotes = NoRemotes
    /\ refs = NoRefs
    /\ head = 0
    /\ cloneUrl = "u1"
    /\ tip = 1
    /\ InitObjects
    /\ link \in [package : {"absent", "true", "false"}, output : Listings,
                 other : Str \ {<<>>}, otherPath : Str, op : {"none"},
                 result : {NoResult}]

NextQuery ==
    \/ \E p \in Procs : Construct(p)
    \/ \E p \in Procs : is_linked_to(p)
    \/ \E p \in Procs : is_linked(p)
    \/ \E p \in Procs : shall_be_linked(p)
    \/ \E p \in Procs : EndRun(p)

SpecQuery == InitQuery /\ [][NextQuery]_vars

\* Two managers of the package at work on one cache at the same time, each
\* constructed from its own configuration (local or remote): their steps
\* interleave freely, since nothing in install() or build() takes a lock.
InitConc ==
    /\ now = 1
    /\ cache = [modified |-> [k \in {} |-> 0], built |-> [k \in {} |-> 0]]
    /\ done = [install |-> NeverDone, build |-> NeverDone]
    /\ config \in [Procs -> {"local", "remote"}]
    /\ storageDir = TRUE
    /\ mtime \in [Paths -> 0..1]
    /\ buildTs \in [Paths -> 0..1]
    /\ \A d \in Paths : (\A p \in Procs : d # PathOf(p)) => mtime[d] = 0 /\ buildTs[d] = 0
    /\ dist = TRUE
    /\ eggLink = FALSE
    /\ dir = IF \E p \in Procs : config[p] = "remote" THEN "repo" ELSE "absent"
    /\ remotes = IF dir = "repo" THEN [NoRemotes EXCEPT !["acme"] = "u1"] ELSE NoRemotes
    /\ refs = IF dir = "repo" THEN [NoRefs EXCEPT !["acme"] = 1] ELSE NoRefs
    /\ head = IF dir = "repo" THEN 1 ELSE 0
    /\ cloneUrl = "u1"
    /\ tip = 1
    /\ pc = [p \in Procs |-> "ready"]
    /\ isLocal = [p \in Procs |-> config[p] = "local"]
    /\ path = [p \in Procs |-> PathOf(p)]
    /\ github = [p \in Procs |-> config[p] = "remote"]
    /\ url = [p \in Procs |-> NoUrl]
    /\ log = [p \in Procs |-> <<>>]
    /\ rem0 = [p \in Procs |-> NoRemotes]
    /\ mt0 = [p \in Procs |-> -1]
    /\ call = [p \in Procs |-> NoCall]
    /\ inRun = [p \in Procs |-> {}]
    /\ fullRun = {}
    /\ InitNoLink

NextConc ==
    \/ \E p \in Procs : install(p)
    \/ \E p \in Procs : inst_prep(p)
    \/ \E p \in Procs : inst_run(p)
    \/ \E p \in Procs : build(p)
    \/ \E p \in Procs : build_run(p)
    \/ \E d \in Paths : Touch(d)

SpecConc == InitConc /\ [][NextConc]_vars

\* One package whose configuration was of the other kind in earlier runs, so
\* that the cache may hold records under the other key of its name; every
\* operation of the manager, the link queries among them.
InitKeys ==
    /\ now = 1
    /\ config \in [Procs -> {"missing", "local", "remote"}]
    /\ config[1] # "missing"
    /\ config[2] = "missing"
    /\ storageDir = TRUE
    /\ \E other \in SUBSET {<<name(1), config[1] # "local">>}, at \in 0..1 :
        /\ cache = [modified |-> [k \in other |-> at], built |-> [k \in other |-> at]]
        /\ done = [install |-> [k \in Keys |-> IF k \in other THEN 1 ELSE -1],
                   build |-> [k \in Keys |-> IF k \in other THEN 1 ELSE -1]]
    /\ mtime \in [Paths -> 0..1]
    /\ buildTs \in [Paths -> 0..1]
    /\ \A d \in Paths : d # PathOf(1) => mtime[d] = 0 /\ buildTs[d] = 0
    /\ dist = TRUE
    /\ eggLink = FALSE
    /\ dir \in {"absent", "empty"}
    /\ PathOf(1) # "storage" => dir = "absent"
    /\ remotes = NoRemotes
    /\ refs = NoRefs
    /\ head = 0
    /\ cloneUrl = "u1"
    /\ tip = 1
    /\ InitObjects
    /\ InitNoLink

NextKeys ==
    \/ \E p \in Procs : Construct(p)
    \/ \E p \in Procs : checkout(p)
    \/ \E p \in Procs : co_add(p)
    \/ \E p \in Procs : co_clone(p)
    \/ \E p \in Procs : co_rename(p)
    \/ \E p \in Procs : co_fetch(p)
    \/ \E p \in Procs : co_ref(p)
    \/ \E p \in Procs : install(p)
    \/ \E p \in Procs : inst_prep(p)
    \/ \E p \in Procs : inst_run(p)
    \/ \E p \in Procs : build(p)
    \/ \E p \in Procs : build_run(p)
    \/ \E p \in Procs : is_linked(p)
    \/ \E p \in Procs : is_linked_to(p)
    \/ \E p \in Procs : shall_be_linked(p)
    \/ \E p \in Procs : EndRun(p)
    \/ \E d \in Paths : Touch(d)

SpecKeys == InitKeys /\ [][NextKeys]_vars

\* ------------------------------------------------------------- the claims
\* The last call of p was operation op and has ended.
Ended(p, op) == call[p].op = op /\ call[p].why # "running"

\* The last call of p was operation op and has returned.
Returned(p, op) == call[p].op = op /\ call[p].why = "none"

\* How often the last call of p invoked its strategy.
Invoked(p) == Count(p, "install_strategy") + Count(p, "build_strategy")

\* C1: an install() whose cached modified-timestamp is older than the
\* directory invokes the install strategy exactly once (a failing Windows
\* preparation command aside) and, when it returns, leaves the cached timestamp
\* at the present time; an install() right after one that returned, the
\* directory unchanged, invokes the strategy zero times.
C1_InstallOnceThenSkip ==
    \A p \in Procs :
        Ended(p, "install") =>
            /\ call[p].stale /\ call[p].why # "exec" => Invoked(p) = 1
            /\ call[p].stale /\ call[p].why = "none" => call[p].stored
            /\ call[p].pop = "install" /\ call[p].pok /\ call[p].same => Invoked(p) = 0

\* C2: a cached timestamp is there only as the time at which the strategy of
\* its action last succeeded for that key: a failed install or build leaves the
\* cache as it was, and its gate stays open for the next call.
C2_StoredOnlyOnSuccess ==
    /\ \A k \in Keys :
        /\ k \in DOMAIN cache.modified =>
              done.install[k] # -1 /\ cache.modified[k] = done.install[k]
        /\ k \in DOMAIN cache.built =>
              done.build[k] # -1 /\ cache.built[k] = done.build[k]
    /\ \A p \in Procs :
        /\ call[p].why \notin {"none", "running"} => ~call[p].wrote
        /\ pc[p] = "failed" /\ call[p].stale /\ Ended(p, "install") =>
              ModifiedIn(cache, CacheKey(p)) < mtime[path[p]]
        /\ pc[p] = "failed" /\ call[p].stale /\ Ended(p, "build") =>
              BuiltIn(cache, CacheKey(p)) < buildTs[path[p]]

\* C2 witness: an install strategy failed at a time later than the stored
\* timestamp of an earlier success.
C2_Witness ==
    \E p \in Procs :
        /\ pc[p] = "failed"
        /\ Ended(p, "install")
        /\ call[p].why = "strategy"
        /\ CacheKey(p) \in DOMAIN cache.modified
        /\ cache.modified[CacheKey(p)] < now

\* C3: in a run that follows a full run (install() and build() returned) of
\* the same package with no change of its source in between, no strategy is
\* invoked.
C3_SecondRunIdle ==
    \A p \in Procs :
        pc[p] \notin {"idle", "off"} /\ path[p] \in fullRun =>
            inRun[p] \cap {"install", "build"} = {}

\* C4: build() invokes no strategy and writes nothing to the cache exactly
\* when the cached built-timestamp is not older than get_build_timestamp();
\* otherwise it invokes the build strategy once and, when it returns, the cached
\* built-timestamp is the present time.
C4_BuildGate ==
    \A p \in Procs :
        Ended(p, "build") =>
            /\ ~call[p].stale => Invoked(p) = 0 /\ ~call[p].wrote /\ call[p].why = "none"
            /\ call[p].stale => Invoked(p) = 1
            /\ call[p].stale /\ call[p].why = "none" => call[p].stored

\* C4 witness: a build() that was skipped after an earlier one had run the
\* strategy and stored its time.
C4_Witness ==
    \E p \in Procs :
        /\ Returned(p, "build")
        /\ ~call[p].stale
        /\ call[p].pop = "build"
        /\ call[p].pok
        /\ CacheKey(p) \in DOMAIN cache.built
        /\ cache.built[CacheKey(p)] > 0

\* C5: the first install() and the first build() of a package with no cache
\* record invoke their strategy, whatever the directory's modification time and
\* the build timestamp are (a failing Windows preparation aside).
C5_FirstCallRuns ==
    \A p \in Procs :
        /\ call[p].op \in {"install", "build"}
        /\ call[p].why \notin {"running", "exec", "path"}
        /\ call[p].fresh
        => Invoked(p) = 1

\* The steps of a checkout() in progress.
CheckoutPcs == {"co_add", "co_clone", "co_rename", "co_fetch", "co_ref"}

\* The remotes a working tree has, by name.
RemotesOf(rs) == {r \in RemoteNames : rs[r] # NoUrl}

\* The call of p is a checkout() that goes to the repository.
Syncing(p) == call[p].op = "checkout" /\ call[p].stale

\* C6: a checkout() that follows a checkout() which returned takes no step but
\* the fetch and the checkout of the ref, in that order, and leaves the remotes
\* as they were, the derived name among them.
C6_SecondCheckoutOnlyFetches ==
    \A p \in Procs :
        Syncing(p) /\ call[p].pop = "checkout" /\ call[p].pok =>
            /\ log[p] \in {<<>>, <<"fetch">>, <<"fetch", "checkout">>}
            /\ call[p].why = "none" => log[p] = <<"fetch", "checkout">>
            /\ remotes = rem0[p]
            /\ remoteName(p) \in RemotesOf(remotes)
            /\ Cardinality(RemotesOf(remotes)) = Cardinality(RemotesOf(rem0[p]))

\* C6 witness: the second of two checkouts in a row has returned.
C6_Witness ==
    \E p \in Procs :
        /\ Syncing(p)
        /\ call[p].pop = "checkout"
        /\ call[p].pok
        /\ call[p].why = "none"
        /\ log[p] = <<"fetch", "checkout">>

\* C7: once a checkout() has returned, the remote under the derived name points
\* at the clone URL that checkout() resolved.
C7_RemotePointsAtCloneUrl ==
    \A p \in Procs :
        Syncing(p) /\ call[p].why = "none" => remotes[remoteName(p)] = url[p]

\* C8: a checkout() that found no valid working tree and returned has cloned,
\* renamed, fetched and checked out, in that order; the directory is a working
\* tree whose only remote is the derived name at the clone URL, at the commit of
\* the remote-tracking ref.
C8_FreshClone ==
    \A p \in Procs :
        Syncing(p) /\ call[p].why = "none" /\ Count(p, "clone") > 0 =>
            /\ log[p] = <<"clone", "rename", "fetch", "checkout">>
            /\ rem0[p] = NoRemotes
            /\ dir = "repo"
            /\ remotes[remoteName(p)] = url[p]
            /\ remotes[DefaultRemote] = NoUrl
            /\ head # 0
            /\ head = refs[remoteName(p)]

\* C8 witness: a checkout() that cloned has returned.
C8_Witness ==
    \E p \in Procs :
        /\ Syncing(p)
        /\ call[p].why = "none"
        /\ Count(p, "clone") = 1
        /\ head = tip

\* C9: a checkout() of a valid working tree without the derived remote adds it
\* at the clone URL and neither clones nor renames; every remote the tree had
\* is still there, at the URL it had.
C9_AddKeepsRemotes ==
    \A p \in Procs :
        Syncing(p) /\ Count(p, "add") > 0 =>
            /\ rem0[p][remoteName(p)] = NoUrl
            /\ dir = "repo"
            /\ Count(p, "clone") = 0 /\ Count(p, "rename") = 0
            /\ \A r \in RemotesOf(rem0[p]) : remotes[r] = rem0[p][r]
            /\ Len(log[p]) > 1 \/ call[p].why = "none" => remotes[remoteName(p)] = url[p]

\* C9 witness: a working tree that had another remote has got the derived one.
C9_Witness ==
    \E p \in Procs :
        /\ Syncing(p)
        /\ call[p].why = "none"
        /\ Count(p, "add") = 1
        /\ RemotesOf(rem0[p]) = {DefaultRemote}
        /\ RemotesOf(remotes) = RemoteNames

\* The step the checkout() of p is at can succeed as far as the working tree goes.
StepCanSucceed(p) ==
    /\ pc[p] = "co_clone" => dir # "repo"
    /\ pc[p] = "co_rename" => remotes[DefaultRemote] # NoUrl /\ ~RemoteExists(p)
    /\ pc[p] = "co_add" => dir = "repo" /\ ~RemoteExists(p)
    /\ pc[p] = "co_fetch" => dir = "repo" /\ RemoteExists(p)
    /\ pc[p] = "co_ref" => dir = "repo" /\ RemoteExists(p)

\* C10, in a state: the checkout() after one that was aborted is led to steps
\* the working tree allows, and when it returns the derived remote is there and
\* the working tree is at the commit of its remote-tracking ref.
C10_Converges ==
    \A p \in Procs :
        Syncing(p) /\ call[p].pop = "checkout" /\ ~call[p].pok =>
            /\ StepCanSucceed(p)
            /\ call[p].why = "none" =>
                /\ dir = "repo"
                /\ RemoteExists(p)
                /\ head # 0
                /\ head = refs[remoteName(p)]

\* C10: no step of a checkout(), aborted or not, changes the cache, and the
\* checkout() after an aborted one converges.
C10_AbortedCheckoutRecovers ==
    /\ []C10_Converges
    /\ [][\A p \in Procs : pc[p] \in CheckoutPcs \cup {"init_co"} => cache' = cache]_vars

\* C10 witness: after a checkout() that was aborted between the clone and the
\* rename, the next one has added the remote and returned.
C10_Witness ==
    \E p \in Procs :
        /\ Syncing(p)
        /\ call[p].pop = "checkout"
        /\ ~call[p].pok
        /\ call[p].why = "none"
        /\ Count(p, "add") = 1
        /\ remotes[DefaultRemote] # NoUrl
        /\ head = tip
        /\ head # 0

\* C11: is_linked_to returns true exactly when a line of the listing names
\* the package and either the path, its trailing separator removed, appears in
\* that line or the path is empty; it raises no error of its own.
C11_LinkedToIffLineMatches ==
    link.op = "is_linked_to" /\ link.result # "CalledProcessError" =>
        /\ link.result \in {"True", "False"}
        /\ link.result = "True" <=>
              \E i \in DOMAIN link.output :
                  /\ Contains(link.other, link.output[i])
                  /\ \/ link.otherPath = <<>>
                     \/ Contains(IF link.otherPath # <<>> /\ link.otherPath[Len(link.otherPath)] = "/"
                                 THEN SubSeq(link.otherPath, 1, Len(link.otherPath) - 1)
                                 ELSE link.otherPath,
                                 link.output[i])

\* C15: shall_be_linked returns false exactly when the configuration sets
\* link_package to false; with link_package absent or true it returns true.
C15_ShallBeLinked ==
    link.op = "shall_be_linked" =>
        /\ link.result \in {"True", "False"}
        /\ link.result = "False" <=> link.package = "false"

\* C15 witness: shall_be_linked has answered for a configuration without link_package.
C15_Witness ==
    /\ link.op = "shall_be_linked"
    /\ link.package = "absent"
    /\ link.result = "True"

\* C12: in an install() that passed its gate the stale-marker step is not
\* fatal (no call ends on the lookup of the installed distribution) and a
\* marker that exists is removed before the install strategy is invoked.
C12_MarkerStepBestEffort ==
    \A p \in Procs :
        /\ call[p].op = "install" => call[p].why # "dist"
        /\ pc[p] = "inst_run" => ~eggLink

\* C13: constructing the manager of a package the configuration does not
\* name fails, and that step creates no directory, touches no repository and
\* changes no cache record.
C13_MissingConfigFailsFirst ==
    [][\A p \in Procs :
          Construct(p) /\ config[p] = "missing" =>
              /\ pc'[p] = "failed"
              /\ path'[p] = NoPath
              /\ ~github'[p]
              /\ dir' = dir
              /\ mtime' = mtime
              /\ remotes' = remotes
              /\ refs' = refs
              /\ head' = head
              /\ cache' = cache]_vars

\* C13 witness: a construction has failed on the missing configuration.
C13_Witness ==
    \E p \in Procs :
        /\ config[p] = "missing"
        /\ pc[p] = "failed"
        /\ dir = "absent"
        /\ cache.modified = <<>>

\* C16: an install() called while the cached modified-timestamp is not older
\* than the directory returns at once: no preparation command, no marker
\* lookup or removal, no install strategy, and every cache record, the marker
\* and the directory as they were.
C16_SkipDoesNothing ==
    [][\A p \in Procs :
          /\ install(p)
          /\ path[p] # NoPath
          /\ ModifiedIn(cache, CacheKey(p)) >= mtime[path[p]]
          => /\ pc'[p] = "installed"
             /\ call'[p].why = "none"
             /\ log'[p] = <<>>
             /\ cache' = cache
             /\ eggLink' = eggLink
             /\ dist' = dist
             /\ mtime' = mtime]_vars

\* C16 witness: an install() was skipped over an existing cache record.
C16_Witness ==
    \E p \in Procs :
        /\ Returned(p, "install")
        /\ ~call[p].stale
        /\ ~call[p].fresh
        /\ log[p] = <<>>
        /\ ModifiedIn(cache, CacheKey(p)) >= mtime[path[p]]

\* The last step the call of p has taken.
LastStep(p) == IF log[p] = <<>> THEN "none" ELSE log[p][Len(log[p])]

\* C17: in a checkout() that goes to the repository the remote under the
\* derived name exists when the fetch is issued, the fetch is issued at most
\* once and exactly once in a call that returns, the checkout of the ref comes
\* right after a fetch that succeeded, and a failed fetch ends the call with no
\* checkout of the ref.
C17_CheckoutOrder ==
    \A p \in Procs :
        Syncing(p) =>
            /\ pc[p] = "co_fetch" => RemoteExists(p) /\ Count(p, "fetch") = 0
            /\ Count(p, "fetch") <= 1
            /\ Count(p, "checkout") <= 1
            /\ pc[p] = "co_ref" =>
                  /\ LastStep(p) = "fetch"
                  /\ RemoteExists(p)
            /\ Count(p, "checkout") = 1 =>
                  /\ Len(log[p]) >= 2
                  /\ log[p][Len(log[p]) - 1] = "fetch"
                  /\ LastStep(p) = "checkout"
                  /\ call[p].why \in {"none", "checkout"}
            /\ call[p].why = "fetch" =>
                  /\ LastStep(p) = "fetch"
                  /\ Count(p, "checkout") = 0
                  /\ pc[p] # "co_ref"
            /\ call[p].why = "none" =>
                  /\ Count(p, "fetch") = 1
                  /\ Count(p, "checkout") = 1

\* C17 witness: a checkout() that added the remote to an existing working
\* tree has fetched and checked the ref out.
C17_Witness ==
    \E p \in Procs :
        /\ Syncing(p)
        /\ call[p].why = "none"
        /\ log[p] = <<"add", "fetch", "checkout">>
        /\ RemoteExists(p)

\* A fresh clone's checkout() ended with its failing fetch.
C17_FetchFailed ==
    \E p \in Procs :
        /\ Syncing(p)
        /\ call[p].why = "fetch"
        /\ log[p] = <<"clone", "rename", "fetch">>

\* The manager of p was constructed without error: its methods can be called.
Constructed(p) ==
    pc[p] \in {"ready", "inst_prep", "inst_run", "installed", "build_run", "built"}

\* C19: a manager constructed without error has its path: the local path of
\* a local package, the checked-out directory under the storage directory of a
\* remote one, whether or not a storage directory is configured.
C19_ConstructedHasPath ==
    \A p \in Procs :
        Constructed(p) =>
            /\ path[p] # NoPath
            /\ isLocal[p] => path[p] = "local"
            /\ ~isLocal[p] => path[p] = "storage" /\ dir = "repo"

Installing(p) == pc[p] \in {"inst_prep", "inst_run"}

\* p is between the gate of build() and its store.
Building(p) == pc[p] = "build_run"

\* Every cache record is the time the strategy of its own key last succeeded.
RecordsOwnedByKey ==
    \A k \in Keys :
        /\ k \in DOMAIN cache.modified <=> done.install[k] >= 0
        /\ k \in DOMAIN cache.modified => cache.modified[k] = done.install[k]
        /\ k \in DOMAIN cache.built <=> done.build[k] >= 0
        /\ k \in DOMAIN cache.built => cache.built[k] = done.build[k]

\* C14: two managers on the same cache key are never both between the gate
\* and the store of install(), nor both between the gate and the store of
\* build(), so that no strategy runs twice for one modification; and a record
\* is only ever written by a manager of its own key.
C14_SerializedPerKey ==
    /\ \A p, q \in Procs :
          p # q /\ CacheKey(p) = CacheKey(q) =>
              /\ ~(Installing(p) /\ Installing(q))
              /\ ~(Building(p) /\ Building(q))
    /\ RecordsOwnedByKey

\* The record of key k under the modified-timestamps stays as it is.
SameModified(k) ==
    /\ k \in DOMAIN cache'.modified <=> k \in DOMAIN cache.modified
    /\ ModifiedIn(cache', k) = ModifiedIn(cache, k)

\* The record of key k under the built-timestamps stays as it is.
SameBuilt(k) ==
    /\ k \in DOMAIN cache'.built <=> k \in DOMAIN cache.built
    /\ BuiltIn(cache', k) = BuiltIn(cache, k)

\* C18: a step of install() leaves every built-timestamp and the
\* modified-timestamps of all other keys as they are, and its gate depends on
\* the modified-timestamp of its own key alone; a step of build() likewise
\* with the two timestamps exchanged; the steps of checkout(), of construction
\* and of the link queries change no cache record.
C18_RecordsIndependent ==
    [][\A p \in Procs :
          /\ install(p) \/ inst_prep(p) \/ inst_run(p) =>
                /\ \A k \in Keys : SameBuilt(k)
                /\ \A k \in Keys \ {CacheKey(p)} : SameModified(k)
          /\ install(p) /\ path[p] # NoPath =>
                (pc'[p] = "inst_prep" <=>
                    ModifiedIn(cache, CacheKey(p)) < mtime[path[p]])
          /\ build(p) \/ build_run(p) =>
                /\ \A k \in Keys : SameModified(k)
                /\ \A k \in Keys \ {CacheKey(p)} : SameBuilt(k)
          /\ build(p) =>
                (pc'[p] = "build_run" <=>
                    BuiltIn(cache, CacheKey(p)) < buildTs[path[p]])
          /\ \/ Construct(p) \/ checkout(p) \/ co_add(p) \/ co_clone(p)
             \/ co_rename(p) \/ co_fetch(p) \/ co_ref(p)
             \/ is_linked(p) \/ is_linked_to(p) \/ shall_be_linked(p)
             => cache' = cache]_vars

\* C18 witness: an install() has stored its timestamp beside an older record
\* under the other key of the same name, which is as it was.
C18_Witness ==
    \E p \in Procs :
        /\ Returned(p, "install")
        /\ call[p].wrote
        /\ cache.modified[CacheKey(p)] = 1
        /\ \E k \in DOMAIN cache.modified :
              /\ k # CacheKey(p)
              /\ cache.modified[k] = 0
              /\ cache.built[k] = 0

====
